---- MODULE Spec2Model ----
(***************************************************************************)
(* Model of scripts/generate-keys.py: the generation of two random secrets *)
(* and of two HS256-signed tokens (roles "anon" and "service_role"), and   *)
(* the four KEY=value lines the script prints.                             *)
(*                                                                         *)
(* Text is a sequence of one-character strings, bytes are a sequence of    *)
(* numbers in 0..255.                                                      *)
(***************************************************************************)
EXTENDS Integers, Sequences, FiniteSets, TLC

(***************************************************************************)
(* Characters and bytes (str.encode / bytes.decode on ASCII text).         *)
(***************************************************************************)

\* The printable ASCII characters, code 32 (space) to code 126 (~), in order
\* (code 96, the grave accent, is written "grave": no text of the model uses it).
Ascii ==
  << " ", "!", "\"", "#", "$", "%", "&", "'", "(", ")", "*", "+", ",", "-", ".", "/",
     "0", "1", "2", "3", "4", "5", "6", "7", "8", "9", ":", ";", "<", "=", ">", "?",
     "@", "A", "B", "C", "D", "E", "F", "G", "H", "I", "J", "K", "L", "M", "N", "O",
     "P", "Q", "R", "S", "T", "U", "V", "W", "X", "Y", "Z", "[", "\\", "]", "^", "_",
     "grave", "a", "b", "c", "d", "e", "f", "g", "h", "i", "j", "k", "l", "m", "n", "o",
     "p", "q", "r", "s", "t", "u", "v", "w", "x", "y", "z", "{", "|", "}", "~" >>

\* The code of every ASCII character.
AsciiCode ==
  [c \in {Ascii[i] : i \in 1..Len(Ascii)} |->
     31 + (CHOOSE i \in 1..Len(Ascii) : Ascii[i] = c)]

\* The code of an ASCII character.
Ord(c) == AsciiCode[c]

\* The ASCII character of a code.
Chr(b) == Ascii[b - 31]

\* str.encode(): the UTF-8 bytes of a text (ASCII: one byte per character).
encode(s) == [i \in 1..Len(s) |-> Ord(s[i])]

\* bytes.decode('utf-8') of ASCII bytes.
decode(bs) == [i \in 1..Len(bs) |-> Chr(bs[i])]

\* str.replace(old, new) for single characters.
replace(s, old, new) == [i \in 1..Len(s) |-> IF s[i] = old THEN new ELSE s[i]]

\* str.rstrip(c): every trailing occurrence of c is removed.
RECURSIVE rstrip(_, _)
rstrip(s, c) ==
  IF Len(s) > 0 /\ s[Len(s)] = c THEN rstrip(SubSeq(s, 1, Len(s) - 1), c) ELSE s

(***************************************************************************)
(* base64.b64encode (RFC 4648, standard alphabet, with padding).           *)
(***************************************************************************)

B64Alphabet ==
  << "A", "B", "C", "D", "E", "F", "G", "H", "I", "J", "K", "L", "M", "N", "O", "P",
     "Q", "R", "S", "T", "U", "V", "W", "X", "Y", "Z", "a", "b", "c", "d", "e", "f",
     "g", "h", "i", "j", "k", "l", "m", "n", "o", "p", "q", "r", "s", "t", "u", "v",
     "w", "x", "y", "z", "0", "1", "2", "3", "4", "5", "6", "7", "8", "9", "+", "/" >>

\* The byte of the alphabet character for a 6-bit value.
B64Byte(v) == Ord(B64Alphabet[v + 1])

\* B64Group with the low bits of the second byte left out of the second
\* character.
B64Group_DropsBits(data, i) ==
  LET n  == Len(data) - i + 1
      b1 == data[i]
      b2 == IF n >= 2 THEN data[i + 1] ELSE 0
      b3 == IF n >= 3 THEN data[i + 2] ELSE 0
      pad == Ord("=")
  IN  << B64Byte(b1 \div 4),
         B64Byte((b1 % 4) * 16),
         IF n >= 2 THEN B64Byte((b2 % 16) * 4 + (b3 \div 64)) ELSE pad,
         IF n >= 3 THEN B64Byte(b3 % 64) ELSE pad >>

\* The group of four output bytes for the input bytes from position i on
\* (three of them, or the one or two that are left, padded with '=').
B64Group(data, i) ==
  LET n  == Len(data) - i + 1
      b1 == data[i]
      b2 == IF n >= 2 THEN data[i + 1] ELSE 0
      b3 == IF n >= 3 THEN data[i + 2] ELSE 0
      pad == Ord("=")
  IN  << B64Byte(b1 \div 4),
         B64Byte((b1 % 4) * 16 + (b2 \div 16)),
         IF n >= 2 THEN B64Byte((b2 % 16) * 4 + (b3 \div 64)) ELSE pad,
         IF n >= 3 THEN B64Byte(b3 % 64) ELSE pad >>

\* base64.b64encode(data): bytes to bytes, four for every three of the input
\* or part of three.
b64encode(data) ==
  [k \in 1..(4 * ((Len(data) + 2) \div 3)) |->
     B64Group(data, 3 * ((k - 1) \div 4) + 1)[((k - 1) % 4) + 1]]

\* str.rstrip misused: at most one trailing c is removed.
StripOne(s, c) == IF Len(s) > 0 /\ s[Len(s)] = c THEN SubSeq(s, 1, Len(s) - 1) ELSE s

\* base64url_encode that strips one '=' only.
base64url_encode_StripOne(data) ==
  StripOne(replace(replace(decode(b64encode(data)), "+", "-"), "/", "_"), "=")

\* base64url_encode(data): base64 without padding, '+' as '-' and '/' as '_'.
base64url_encode(data) ==
  rstrip(replace(replace(decode(b64encode(data)), "+", "-"), "/", "_"), "=")

(***************************************************************************)
(* json.dumps(obj, separators=(',', ':')) for the flat objects of the      *)
(* script: an object is the sequence of its members in insertion order, a  *)
(* member is [key, kind, s, n] with kind "str" (value s) or "int" (value   *)
(* n).                                                                     *)
(***************************************************************************)

StrMember(k, v) == [key |-> k, kind |-> "str", s |-> v, n |-> 0]

IntMember(k, v) == [key |-> k, kind |-> "int", s |-> << >>, n |-> v]

\* The decimal digits of a natural number.
RECURSIVE Digits(_)
Digits(n) ==
  IF n < 10 THEN << Chr(48 + n) >> ELSE Digits(n \div 10) \o << Chr(48 + (n % 10)) >>

\* An integer as json.dumps writes it.
JsonInt(n) == IF n < 0 THEN << "-" >> \o Digits(0 - n) ELSE Digits(n)

\* The body of a string as json.dumps writes it: '"' and '\' are escaped
\* (the other printable ASCII characters are written as they are).
RECURSIVE JsonEscape(_, _)
JsonEscape(s, i) ==
  IF i > Len(s) THEN << >>
  ELSE (IF s[i] \in {"\"", "\\"} THEN << "\\", s[i] >> ELSE << s[i] >>)
       \o JsonEscape(s, i + 1)

JsonString(s) == << "\"" >> \o JsonEscape(s, 1) \o << "\"" >>

JsonMember(m) ==
  JsonString(m.key) \o << ":" >>
    \o (IF m.kind = "str" THEN JsonString(m.s) ELSE JsonInt(m.n))

RECURSIVE JsonMembers(_, _)
JsonMembers(obj, i) ==
  IF i > Len(obj) THEN << >>
  ELSE (IF i > 1 THEN << "," >> ELSE << >>) \o JsonMember(obj[i])
       \o JsonMembers(obj, i + 1)

\* json.dumps(obj, separators=(',', ':')).
json_dumps(obj) == << "{" >> \o JsonMembers(obj, 1) \o << "}" >>

(***************************************************************************)
(* hmac.new(key, msg, hashlib.sha256).digest().  HMAC-SHA256 is a function *)
(* of the standard library, not code of the script: it is represented by a *)
(* keyed checksum of the same shape (32 bytes, a function of the key bytes *)
(* and of the message bytes, in which every byte of either, and its        *)
(* position, changes the digest).                                          *)
(***************************************************************************)

\* The length of a SHA-256 digest, in bytes.
DigestBytes == 32

\* The sum, modulo 256, of the bytes lo..hi of bs, each multiplied by
\* 2 * position + 1 when `weighted`.
RECURSIVE ByteSum(_, _, _, _)
ByteSum(bs, lo, hi, weighted) ==
  IF lo > hi THEN 0
  ELSE IF lo = hi THEN (bs[lo] * (IF weighted THEN 2 * lo + 1 ELSE 1)) % 256
  ELSE LET mid == (lo + hi) \div 2
       IN  (ByteSum(bs, lo, mid, weighted) + ByteSum(bs, mid + 1, hi, weighted)) % 256

HmacSha256(key, msg) ==
  LET k0 == ByteSum(key, 1, Len(key), TRUE)
      k1 == ByteSum(key, 1, Len(key), FALSE)
      m0 == ByteSum(msg, 1, Len(msg), TRUE)
      m1 == ByteSum(msg, 1, Len(msg), FALSE)
  IN  [i \in 1..DigestBytes |->
         (3 * (k0 + 2 * i * k1) + 5 * (m0 + 4 * i * m1)
            + 7 * Len(key) + 11 * Len(msg) + 13 * i) % 256]

(***************************************************************************)
(* secrets.token_bytes(n).  The secure random source is a stream of bytes  *)
(* fixed by a seed the program cannot see; a draw of n bytes returns the   *)
(* next n bytes of the stream and consumes them.                           *)
(***************************************************************************)

\* Byte i (from 1) of the stream of seed sd.
StreamByte(sd, i) == (sd * 97 + i * 53 + (i \div 7) * 31 + i * i * (sd + 1)) % 256

\* The n bytes a draw returns when p bytes of the stream are consumed.
token_bytes(sd, p, n) == [i \in 1..n |-> StreamByte(sd, p + i)]

(***************************************************************************)
(* Bounds of the model and constants of the program.                       *)
(***************************************************************************)

\* The number of random bytes of a secret (token_bytes(32)).
SecretBytes == 32

\* The lifetime of a token in seconds ("10 years").
TenYears == 315360000

\* The time (seconds since the epoch) when the run starts.
ClockStart == 1700000000

\* The resolution of the clock: its ticks in a second.
TicksPerSecond == 2

\* How many ticks the clock may advance during a run.
MaxTicks == 2

\* The seeds of the random stream are 0..MaxSeed.
MaxSeed == 1

\* The test harness makes at most MaxCalls calls of create_jwt.
MaxCalls == 2

\* The byte sequences base64url_encode is tested on have at most MaxLen bytes.
MaxLen == 3

(***************************************************************************)
(* The state.                                                              *)
(***************************************************************************)

VARIABLES
  pc,               \* the line the module-level code is at, "done" or "failed"
  cj,               \* the frame of the running create_jwt call
  clock,            \* time.time(), in ticks since the start of the run
  seed,             \* the seed of the random stream
  pos,              \* how many bytes of the stream are consumed
  draws,            \* history: the draws made, as [start, n]
  jwt_secret,       \* module globals, None until assigned
  secret_key_base,
  anon_key,
  service_role_key,
  stdout,           \* the lines printed
  signed,           \* history: the create_jwt calls that returned
  args,             \* harness of create_jwt: the arguments of its calls
  data,             \* harness of base64url_encode: the input bytes
  encoded           \* harness of base64url_encode: << result >> once called

vars ==
  << pc, cj, clock, seed, pos, draws, jwt_secret, secret_key_base, anon_key,
     service_role_key, stdout, signed, args, data, encoded >>

globals == << jwt_secret, secret_key_base, anon_key, service_role_key >>

rng == << seed, pos, draws >>

harness == << args, data, encoded >>

\* A global that is not assigned yet.
None == << >>

\* No create_jwt call is running.
Idle ==
  [pc |-> "idle", role |-> None, jwt_secret |-> None, header_b64 |-> None,
   now |-> 0, payload_b64 |-> None, signature_b64 |-> None, reads |-> << >>]

(***************************************************************************)
(* create_jwt(role, jwt_secret), lines 16-37, one step per statement.      *)
(***************************************************************************)

\* The call: a new frame, at the first statement.
Frame(role, secret) == [Idle EXCEPT !.pc = "l19", !.role = role, !.jwt_secret = secret]

\* Lines 19-20: the header and its encoding.
header == << StrMember(<< "a", "l", "g" >>, << "H", "S", "2", "5", "6" >>),
             StrMember(<< "t", "y", "p" >>, << "J", "W", "T" >>) >>

CJ_Header ==
  /\ cj.pc = "l19"
  /\ cj' = [cj EXCEPT !.pc = "l23",
                      !.header_b64 = base64url_encode(encode(json_dumps(header)))]
  /\ UNCHANGED << pc, clock, rng, globals, stdout, signed, harness >>

\* int(t) of a reading t of the clock: the whole seconds since the epoch.
int_time(t) == ClockStart + (t \div TicksPerSecond)

\* Line 23: now = int(time.time()), the one read of the clock.
CJ_Now ==
  /\ cj.pc = "l23"
  /\ cj' = [cj EXCEPT !.pc = "l24", !.now = int_time(clock), !.reads = Append(@, clock)]
  /\ UNCHANGED << pc, clock, rng, globals, stdout, signed, harness >>

\* The payload with the role written as the issuer too.
payload_IssFromRole(role, now) ==
  << StrMember(<< "r", "o", "l", "e" >>, role),
     StrMember(<< "i", "s", "s" >>, role),
     IntMember(<< "i", "a", "t" >>, now),
     IntMember(<< "e", "x", "p" >>, now + TenYears) >>

\* Lines 24-29: the payload, in insertion order.
payload(role, now) ==
  << StrMember(<< "r", "o", "l", "e" >>, role),
     StrMember(<< "i", "s", "s" >>, << "s", "u", "p", "a", "b", "a", "s", "e" >>),
     IntMember(<< "i", "a", "t" >>, now),
     IntMember(<< "e", "x", "p" >>, now + TenYears) >>

\* Lines 24-30 with the expiry computed from a second reading of the clock.
CJ_Payload_Reread ==
  /\ cj.pc = "l24"
  /\ cj' = [cj EXCEPT !.pc = "l33",
                      !.payload_b64 =
                         base64url_encode(encode(json_dumps(
                           << StrMember(<< "r", "o", "l", "e" >>, cj.role),
                              StrMember(<< "i", "s", "s" >>,
                                        << "s", "u", "p", "a", "b", "a", "s", "e" >>),
                              IntMember(<< "i", "a", "t" >>, cj.now),
                              IntMember(<< "e", "x", "p" >>, int_time(clock) + TenYears) >>)))]
  /\ UNCHANGED << pc, clock, rng, globals, stdout, signed, harness >>

\* Lines 24-30.
CJ_Payload ==
  /\ cj.pc = "l24"
  /\ cj' = [cj EXCEPT !.pc = "l33",
                      !.payload_b64 =
                         base64url_encode(encode(json_dumps(payload(cj.role, cj.now))))]
  /\ UNCHANGED << pc, clock, rng, globals, stdout, signed, harness >>

\* The signing input without the separator.
message_NoSeparator(header_b64, payload_b64) == encode(header_b64 \o payload_b64)

\* Line 33: f"{header_b64}.{payload_b64}".encode().
message(header_b64, payload_b64) == encode(header_b64 \o << "." >> \o payload_b64)

\* Lines 33-35 with a byte of the random source mixed into the signing input.
CJ_Sign_Salted ==
  /\ cj.pc = "l33"
  /\ cj' = [cj EXCEPT !.pc = "l37",
                      !.signature_b64 =
                         base64url_encode(
                           HmacSha256(encode(cj.jwt_secret),
                                      message(cj.header_b64, cj.payload_b64)
                                        \o token_bytes(seed, pos, 1)))]
  /\ UNCHANGED << pc, clock, rng, globals, stdout, signed, harness >>

\* Lines 33-35.
CJ_Sign ==
  /\ cj.pc = "l33"
  /\ cj' = [cj EXCEPT !.pc = "l37",
                      !.signature_b64 =
                         base64url_encode(
                           HmacSha256(encode(cj.jwt_secret),
                                      message(cj.header_b64, cj.payload_b64)))]
  /\ UNCHANGED << pc, clock, rng, globals, stdout, signed, harness >>

\* A statement of create_jwt raises (serialization, encoding, the clock or the
\* signing primitive fails); the exception leaves the call and its locals
\* are gone.
CJ_Raise ==
  /\ cj.pc \in {"l19", "l23", "l24", "l33"}
  /\ cj' = [Idle EXCEPT !.pc = "raised"]
  /\ UNCHANGED << pc, clock, rng, globals, stdout, signed, harness >>

\* Line 37: the value a call at its return statement returns.
CJ_Result(f) == f.header_b64 \o << "." >> \o f.payload_b64 \o << "." >> \o f.signature_b64

\* The record of a returned call: its arguments, the clock readings it took
\* and the token it returned.
Returned(f) ==
  [role |-> f.role, jwt_secret |-> f.jwt_secret, reads |-> f.reads,
   token |-> CJ_Result(f)]

CreateJwt == CJ_Header \/ CJ_Now \/ CJ_Payload \/ CJ_Sign \/ CJ_Raise

\* The clock advances by a tick.
Tick ==
  /\ clock < MaxTicks
  /\ clock' = clock + 1
  /\ UNCHANGED << pc, cj, rng, globals, stdout, signed, harness >>

(***************************************************************************)
(* The module-level code, lines 39-51.                                     *)
(***************************************************************************)

\* Line 40 followed at once by the print of line 48.
L40_PrintsEarly ==
  /\ pc = "l40"
  /\ jwt_secret' = decode(b64encode(token_bytes(seed, pos, SecretBytes)))
  /\ pos' = pos + SecretBytes
  /\ draws' = Append(draws, [start |-> pos, n |-> SecretBytes])
  /\ stdout' = Append(stdout, << "J", "W", "T", "_", "S", "E", "C", "R", "E", "T", "=" >>
                                \o jwt_secret')
  /\ pc' = "l41"
  /\ UNCHANGED << cj, clock, seed, secret_key_base, anon_key, service_role_key,
                  signed, harness >>

\* Line 40: jwt_secret = base64.b64encode(secrets.token_bytes(32)).decode('utf-8').
L40 ==
  /\ pc = "l40"
  /\ jwt_secret' = decode(b64encode(token_bytes(seed, pos, SecretBytes)))
  /\ pos' = pos + SecretBytes
  /\ draws' = Append(draws, [start |-> pos, n |-> SecretBytes])
  /\ pc' = "l41"
  /\ UNCHANGED << cj, clock, seed, secret_key_base, anon_key, service_role_key,
                  stdout, signed, harness >>

\* Line 41 as a copy of the first secret, with no draw of its own.
L41_Reuse ==
  /\ pc = "l41"
  /\ secret_key_base' = jwt_secret
  /\ pc' = "l44"
  /\ UNCHANGED << cj, clock, rng, jwt_secret, anon_key, service_role_key,
                  stdout, signed, harness >>

\* Line 41: secret_key_base, likewise.
L41 ==
  /\ pc = "l41"
  /\ secret_key_base' = decode(b64encode(token_bytes(seed, pos, SecretBytes)))
  /\ pos' = pos + SecretBytes
  /\ draws' = Append(draws, [start |-> pos, n |-> SecretBytes])
  /\ pc' = "l44"
  /\ UNCHANGED << cj, clock, seed, jwt_secret, anon_key, service_role_key,
                  stdout, signed, harness >>

\* Lines 40, 41: the random source cannot supply bytes; the exception is not
\* caught and ends the run.
DrawFails ==
  /\ pc \in {"l40", "l41"}
  /\ pc' = "failed"
  /\ UNCHANGED << cj, clock, rng, globals, stdout, signed, harness >>

\* Line 44: the call create_jwt("anon", jwt_secret).
L44_Call ==
  /\ pc = "l44"
  /\ cj.pc = "idle"
  /\ cj' = Frame(<< "a", "n", "o", "n" >>, jwt_secret)
  /\ UNCHANGED << pc, clock, rng, globals, stdout, signed, harness >>

\* Line 44: anon_key = the value returned.
L44_Return ==
  /\ pc = "l44"
  /\ cj.pc = "l37"
  /\ anon_key' = CJ_Result(cj)
  /\ signed' = Append(signed, Returned(cj))
  /\ cj' = Idle
  /\ pc' = "l45"
  /\ UNCHANGED << clock, rng, jwt_secret, secret_key_base, service_role_key,
                  stdout, harness >>

\* Line 45 with the other secret as the key.
L45_Call_OtherSecret ==
  /\ pc = "l45"
  /\ cj.pc = "idle"
  /\ cj' = Frame(<< "s", "e", "r", "v", "i", "c", "e", "_", "r", "o", "l", "e" >>,
                 secret_key_base)
  /\ UNCHANGED << pc, clock, rng, globals, stdout, signed, harness >>

\* Line 45: the call create_jwt("service_role", jwt_secret).
L45_Call ==
  /\ pc = "l45"
  /\ cj.pc = "idle"
  /\ cj' = Frame(<< "s", "e", "r", "v", "i", "c", "e", "_", "r", "o", "l", "e" >>,
                 jwt_secret)
  /\ UNCHANGED << pc, clock, rng, globals, stdout, signed, harness >>

\* Line 45: service_role_key = the value returned.
L45_Return ==
  /\ pc = "l45"
  /\ cj.pc = "l37"
  /\ service_role_key' = CJ_Result(cj)
  /\ signed' = Append(signed, Returned(cj))
  /\ cj' = Idle
  /\ pc' = "l48"
  /\ UNCHANGED << clock, rng, jwt_secret, secret_key_base, anon_key, stdout, harness >>

\* Lines 44, 45: the exception of create_jwt is not caught and ends the run.
Uncaught ==
  /\ pc \in {"l44", "l45"}
  /\ cj.pc = "raised"
  /\ cj' = Idle
  /\ pc' = "failed"
  /\ UNCHANGED << clock, rng, globals, stdout, signed, harness >>

\* f"{name}={value}".
Line(name, value) == name \o << "=" >> \o value

\* print(line) at line `at`: the line is written; the code goes on at `next`.
WriteLine(at, line, next) ==
  /\ pc = at
  /\ stdout' = Append(stdout, line)
  /\ pc' = next
  /\ UNCHANGED << cj, clock, rng, globals, signed, harness >>

K_JWT_SECRET == << "J", "W", "T", "_", "S", "E", "C", "R", "E", "T" >>

K_ANON_KEY == << "A", "N", "O", "N", "_", "K", "E", "Y" >>

K_SERVICE_ROLE_KEY ==
  << "S", "E", "R", "V", "I", "C", "E", "_", "R", "O", "L", "E", "_", "K", "E", "Y" >>

K_SECRET_KEY_BASE ==
  << "S", "E", "C", "R", "E", "T", "_", "K", "E", "Y", "_", "B", "A", "S", "E" >>

\* Lines 48-51.
L48 == WriteLine("l48", Line(K_JWT_SECRET, jwt_secret), "l49")

\* Line 49 with the other token.
L49_ServiceRole == WriteLine("l49", Line(K_ANON_KEY, service_role_key), "l50")

L49 == WriteLine("l49", Line(K_ANON_KEY, anon_key), "l50")

L50 == WriteLine("l50", Line(K_SERVICE_ROLE_KEY, service_role_key), "l51")

L51 == WriteLine("l51", Line(K_SECRET_KEY_BASE, secret_key_base), "done")

Init ==
  /\ pc = "l40"
  /\ cj = Idle
  /\ clock = 0
  /\ seed \in 0..MaxSeed
  /\ pos = 0
  /\ draws = << >>
  /\ jwt_secret = None
  /\ secret_key_base = None
  /\ anon_key = None
  /\ service_role_key = None
  /\ stdout = << >>
  /\ signed = << >>
  /\ args = None
  /\ data = << >>
  /\ encoded = << >>

\* A step of the script.
Program ==
  \/ L40 \/ L41 \/ DrawFails
  \/ L44_Call \/ L44_Return \/ L45_Call \/ L45_Return \/ Uncaught
  \/ CreateJwt
  \/ L48 \/ L49 \/ L50 \/ L51

Next == Program \/ Tick

\* One run of the script.
Spec == Init /\ [][Next]_vars

(***************************************************************************)
(* create_jwt on its own: repeated calls with one role and one secret, any *)
(* of the sets below, while the clock advances and the random source is    *)
(* drawn from in between.                                                  *)
(***************************************************************************)

\* Roles: the two of the script, one whose payload is 1 mod 3 bytes long (two
\* '=' of padding), and one that json.dumps escapes and whose encoding has a
\* '+' and a '/'.
Roles ==
  { << "a", "n", "o", "n" >>,
    << "s", "e", "r", "v", "i", "c", "e", "_", "r", "o", "l", "e" >>,
    << "a", "b" >>,
    << "\"", "?", "\\", "~" >> }

\* Secrets: a fixed text and a generated secret.
Secrets ==
  { << "t", "e", "s", "t", "-", "s", "e", "c", "r", "e", "t" >>,
    decode(b64encode(token_bytes(0, 0, SecretBytes))) }

TestCall ==
  /\ pc = "test"
  /\ cj.pc = "idle"
  /\ Len(signed) < MaxCalls
  /\ cj' = Frame(args.role, args.secret)
  /\ UNCHANGED << pc, clock, rng, globals, stdout, signed, harness >>

TestReturn ==
  /\ pc = "test"
  /\ cj.pc = "l37"
  /\ signed' = Append(signed, Returned(cj))
  /\ cj' = Idle
  /\ UNCHANGED << pc, clock, rng, globals, stdout, harness >>

TestCatch ==
  /\ pc = "test"
  /\ cj.pc = "raised"
  /\ cj' = Idle
  /\ UNCHANGED << pc, clock, rng, globals, stdout, signed, harness >>

\* A draw from the random source between two statements.
TestDraw ==
  /\ pc = "test"
  /\ draws = << >>
  /\ pos' = pos + SecretBytes
  /\ draws' = Append(draws, [start |-> pos, n |-> SecretBytes])
  /\ UNCHANGED << pc, cj, clock, seed, globals, stdout, signed, harness >>

InitSign ==
  /\ pc = "test"
  /\ cj = Idle
  /\ clock = 0
  /\ seed = 0
  /\ pos = 0
  /\ draws = << >>
  /\ jwt_secret = None
  /\ secret_key_base = None
  /\ anon_key = None
  /\ service_role_key = None
  /\ stdout = << >>
  /\ signed = << >>
  /\ args \in [role : Roles, secret : Secrets]
  /\ data = << >>
  /\ encoded = << >>

NextSign == TestCall \/ TestReturn \/ TestCatch \/ TestDraw \/ CreateJwt \/ Tick

SpecSign == InitSign /\ [][NextSign]_vars

(***************************************************************************)
(* base64url_encode on its own: every byte sequence of at most MaxLen      *)
(* bytes over TestBytes, and 32-byte draws of the random source.           *)
(***************************************************************************)

\* 251 and 255 begin with the 6-bit values 62 ('+') and 63 ('/'), 62 and 63
\* end with them.
TestBytes == {0, 1, 62, 63, 65, 128, 251, 255}

RECURSIVE SeqsUpTo(_, _)
SeqsUpTo(S, n) ==
  IF n = 0 THEN { << >> }
  ELSE LET shorter == SeqsUpTo(S, n - 1)
       IN  shorter \cup { Append(q, b) : q \in shorter, b \in S }

TestInputs ==
  SeqsUpTo(TestBytes, MaxLen)
    \cup { token_bytes(sd, p, SecretBytes) : sd \in 0..MaxSeed, p \in {0, SecretBytes} }

B64_Call ==
  /\ pc = "b64"
  /\ encoded = << >>
  /\ encoded' = << base64url_encode(data) >>
  /\ UNCHANGED << pc, cj, clock, rng, globals, stdout, signed, args, data >>

InitB64 ==
  /\ pc = "b64"
  /\ cj = Idle
  /\ clock = 0
  /\ seed = 0
  /\ pos = 0
  /\ draws = << >>
  /\ jwt_secret = None
  /\ secret_key_base = None
  /\ anon_key = None
  /\ service_role_key = None
  /\ stdout = << >>
  /\ signed = << >>
  /\ args = None
  /\ data \in TestInputs
  /\ encoded = << >>

NextB64 == B64_Call

SpecB64 == InitB64 /\ [][NextB64]_vars

(***************************************************************************)
(* Reading a token back: the segments of a text, the inverse of            *)
(* base64url_encode and the members of a serialized object.  These are     *)
(* what the properties below are stated with; the script has none of them. *)
(***************************************************************************)

\* str.split(sep): the pieces of s between the occurrences of sep.
Segments(s, sep) ==
  LET at == {i \in 1..Len(s) : s[i] = sep}
      cut(k) == IF k = 0 THEN 0
                ELSE IF k > Cardinality(at) THEN Len(s) + 1
                ELSE CHOOSE p \in at : Cardinality({q \in at : q < p}) = k - 1
  IN  [k \in 1..(Cardinality(at) + 1) |-> SubSeq(s, cut(k - 1) + 1, cut(k) - 1)]

\* The characters of the base64url alphabet.
UrlAlphabet ==
  ({B64Alphabet[i] : i \in 1..Len(B64Alphabet)} \ {"+", "/"}) \cup {"-", "_"}

\* The 6-bit value of every character of the standard alphabet.
B64Values ==
  [c \in {B64Alphabet[i] : i \in 1..Len(B64Alphabet)} |->
     (CHOOSE i \in 1..Len(B64Alphabet) : B64Alphabet[i] = c) - 1]

\* The 6-bit value of a character of a padded text ('=' counts 0).
B64Value(c) == IF c = "=" THEN 0 ELSE B64Values[c]

\* '=' appended until the length is a multiple of 4.
Repad(s) == s \o [i \in 1..((4 - (Len(s) % 4)) % 4) |-> "="]

\* Standard base64 decoding of a padded text.
b64decode(s) ==
  LET pads == Cardinality({i \in 1..Len(s) : s[i] = "="})
      v(i) == B64Value(s[i])
      byte(k) ==
        LET g == 4 * ((k - 1) \div 3)
        IN  CASE (k - 1) % 3 = 0 -> v(g + 1) * 4 + (v(g + 2) \div 16)
              [] (k - 1) % 3 = 1 -> (v(g + 2) % 16) * 16 + (v(g + 3) \div 4)
              [] OTHER           -> (v(g + 3) % 4) * 64 + v(g + 4)
  IN  [k \in 1..(3 * (Len(s) \div 4) - pads) |-> byte(k)]

\* The inverse of base64url_encode: '-' back to '+', '_' back to '/', the
\* padding re-appended, standard decoding.
base64url_decode(s) == b64decode(Repad(replace(replace(s, "-", "+"), "_", "/")))

\* The string that starts after the quote before position i.
RECURSIVE ReadStr(_, _, _)
ReadStr(s, i, acc) ==
  IF s[i] = "\"" THEN [val |-> acc, next |-> i + 1]
  ELSE IF s[i] = "\\" THEN ReadStr(s, i + 2, Append(acc, s[i + 1]))
  ELSE ReadStr(s, i + 1, Append(acc, s[i]))

IsDigit(c) == c \in {"0", "1", "2", "3", "4", "5", "6", "7", "8", "9"}

\* The natural number that starts at position i.
RECURSIVE ReadInt(_, _, _)
ReadInt(s, i, acc) ==
  IF i <= Len(s) /\ IsDigit(s[i]) THEN ReadInt(s, i + 1, 10 * acc + (Ord(s[i]) - 48))
  ELSE [val |-> acc, next |-> i]

\* The members of an object from position i on.
RECURSIVE ReadMembers(_, _, _)
ReadMembers(s, i, acc) ==
  LET k == ReadStr(s, i + 1, << >>)
      j == k.next + 1
      m == IF s[j] = "\""
           THEN LET v == ReadStr(s, j + 1, << >>)
                IN  [member |-> StrMember(k.val, v.val), next |-> v.next]
           ELSE LET v == ReadInt(s, j, 0)
                IN  [member |-> IntMember(k.val, v.val), next |-> v.next]
  IN  IF s[m.next] = "," THEN ReadMembers(s, m.next + 1, Append(acc, m.member))
      ELSE Append(acc, m.member)

\* json.loads of a flat object.
json_loads(s) == ReadMembers(s, 2, << >>)

\* The member of an object with a key.
Member(obj, key) == obj[CHOOSE i \in 1..Len(obj) : obj[i].key = key]

\* The payload of a token: its second segment, decoded and parsed.
PayloadOf(token) == json_loads(decode(base64url_decode(Segments(token, ".")[2])))

\* The fields of a parsed payload.
Role(p) == Member(p, << "r", "o", "l", "e" >>).s

Iss(p) == Member(p, << "i", "s", "s" >>).s

Iat(p) == Member(p, << "i", "a", "t" >>).n

Exp(p) == Member(p, << "e", "x", "p" >>).n

\* The name and the value of a printed line: what is before and after the
\* first '='.
FirstEq(line) == CHOOSE i \in 1..Len(line) : line[i] = "=" /\ \A j \in 1..(i - 1) : line[j] # "="

NameOf(line) == SubSeq(line, 1, FirstEq(line) - 1)

ValueOf(line) == SubSeq(line, FirstEq(line) + 1, Len(line))

(***************************************************************************)
(* Properties.                                                             *)
(***************************************************************************)

Anon == << "a", "n", "o", "n" >>

ServiceRole == << "s", "e", "r", "v", "i", "c", "e", "_", "r", "o", "l", "e" >>

\* The second a returned call read.
Seconds(call) == int_time(call.reads[1])

\* The secret a draw [start, n] of the stream yields.
SecretOfDraw(d) == decode(b64encode(token_bytes(seed, d.start, d.n)))

\* C1: a run is all-or-nothing: a run that failed has written no line, a run
\* that completed has written four, and a run that has written 1, 2 or 3
\* lines has not ended: its next print can be taken.
C1_AllOrNothing ==
  /\ pc = "failed" => stdout = << >>
  /\ pc = "done" => Len(stdout) = 4
  /\ Len(stdout) \in 1..3 => pc \notin {"done", "failed"} /\ ENABLED (L49 \/ L50 \/ L51)

\* A run that failed in the second signing call, after the first returned.
C1_Witness == pc = "failed" /\ Len(signed) = 1 /\ anon_key # None /\ stdout = << >>

\* C2: the value on the JWT_SECRET line is the key of both signing calls
\* (roles "anon" and "service_role"); the value on the SECRET_KEY_BASE line
\* is the key of no signing call and comes from another draw.
C2_SecretUse ==
  /\ \A i \in 1..Len(signed) :
       signed[i].jwt_secret = jwt_secret /\ signed[i].jwt_secret # secret_key_base
  /\ pc = "done" =>
       /\ Len(signed) = 2
       /\ signed[1].role = Anon /\ signed[2].role = ServiceRole
       /\ NameOf(stdout[1]) = K_JWT_SECRET
       /\ NameOf(stdout[4]) = K_SECRET_KEY_BASE
       /\ \A i \in 1..2 :
            /\ signed[i].jwt_secret = ValueOf(stdout[1])
            /\ signed[i].jwt_secret # ValueOf(stdout[4])
       /\ Len(draws) = 2
       /\ draws[1].start + draws[1].n <= draws[2].start
       /\ ValueOf(stdout[1]) = SecretOfDraw(draws[1])
       /\ ValueOf(stdout[4]) = SecretOfDraw(draws[2])

\* A completed run: both calls returned and the four lines are out.
C2_Witness == pc = "done" /\ Len(signed) = 2 /\ Len(stdout) = 4 /\ seed = MaxSeed

\* C3: the lines written are, in this order, JWT_SECRET, ANON_KEY,
\* SERVICE_ROLE_KEY, SECRET_KEY_BASE, each once; ANON_KEY carries the token
\* signed with role "anon", SERVICE_ROLE_KEY the one signed with role
\* "service_role"; no line is written before the four values are computed;
\* a completed run has written exactly the four.
C3_OutputOrder ==
  LET names == << K_JWT_SECRET, K_ANON_KEY, K_SERVICE_ROLE_KEY, K_SECRET_KEY_BASE >>
  IN  /\ Len(stdout) <= 4
      /\ \A i \in 1..Len(stdout) : NameOf(stdout[i]) = names[i]
      /\ stdout # << >> =>
           /\ jwt_secret # None /\ secret_key_base # None
           /\ anon_key # None /\ service_role_key # None
           /\ Len(signed) = 2
           /\ signed[1].role = Anon /\ signed[2].role = ServiceRole
      /\ Len(stdout) >= 1 => ValueOf(stdout[1]) = jwt_secret
      /\ Len(stdout) >= 2 =>
           /\ ValueOf(stdout[2]) = signed[1].token
           /\ Role(PayloadOf(ValueOf(stdout[2]))) = Anon
      /\ Len(stdout) >= 3 =>
           /\ ValueOf(stdout[3]) = signed[2].token
           /\ Role(PayloadOf(ValueOf(stdout[3]))) = ServiceRole
      /\ Len(stdout) >= 4 => ValueOf(stdout[4]) = secret_key_base
      /\ pc = "done" => Len(stdout) = 4

\* The four lines are out and the two calls read different seconds.
C3_Witness ==
  /\ pc = "done" /\ Len(stdout) = 4
  /\ Seconds(signed[1]) # Seconds(signed[2])

\* C4: the third segment of a returned token is the base64url, without
\* padding, of the HMAC keyed with the bytes of the secret over the bytes of
\* the token's own first segment, a '.', and its own second segment.
C4_SignatureCoversEmitted ==
  \A i \in 1..Len(signed) :
    LET seg == Segments(signed[i].token, ".")
    IN  /\ Len(seg) = 3
        /\ seg[3] = base64url_encode(
                      HmacSha256(encode(signed[i].jwt_secret),
                                 encode(seg[1] \o << "." >> \o seg[2])))

\* A call with the role that needs escaping and the generated secret returned.
C4_Witness ==
  \E i \in 1..Len(signed) :
    /\ signed[i].role = << "\"", "?", "\\", "~" >>
    /\ Len(signed[i].jwt_secret) = 44

\* C5: two calls with the same role, the same secret and the same clock
\* reading return the same token, whatever happened between them.
C5_Deterministic ==
  \A i, j \in 1..Len(signed) :
    ( /\ signed[i].role = signed[j].role
      /\ signed[i].jwt_secret = signed[j].jwt_secret
      /\ Seconds(signed[i]) = Seconds(signed[j]) )
    => signed[i].token = signed[j].token

\* Two calls read the same second at different times, and the random source
\* was drawn from.
C5_Witness ==
  /\ Len(signed) >= 2
  /\ signed[1].reads # signed[2].reads
  /\ Seconds(signed[1]) = Seconds(signed[2])
  /\ draws # << >>

\* C6 as stated: in a run, iss, iat and exp are the same in the two tokens,
\* however the clock behaves between the two calls.
C6_SameTimes ==
  Len(signed) = 2 =>
    LET p1 == PayloadOf(signed[1].token)
        p2 == PayloadOf(signed[2].token)
    IN  /\ Iss(p1) = Iss(p2)
        /\ Iat(p1) = Iat(p2)
        /\ Exp(p1) = Exp(p2)

\* C6 amended: the two tokens of a run differ in role and agree on iss; each
\* call reads the clock for itself, so iat and exp are the same in the two
\* exactly when the two calls read the same second.
C6_SameTimesIfSameSecond ==
  Len(signed) = 2 =>
    LET same == Seconds(signed[1]) = Seconds(signed[2])
        p1 == PayloadOf(signed[1].token)
        p2 == PayloadOf(signed[2].token)
    IN  /\ Role(p1) # Role(p2)
        /\ Iss(p1) = Iss(p2)
        /\ (Iat(p1) = Iat(p2)) <=> same
        /\ (Exp(p1) = Exp(p2)) <=> same

\* Both tokens of a run exist and the second call read a later second.
C6_Witness ==
  /\ Len(signed) = 2
  /\ pc = "l48"
  /\ Seconds(signed[1]) < Seconds(signed[2])

\* C7: the payload in the second segment of a returned token has the role of
\* the call, iss "supabase", iat the one clock reading of the call, and exp
\* 315360000 more than iat.
C7_Payload ==
  \A i \in 1..Len(signed) :
    LET p == PayloadOf(signed[i].token)
    IN  /\ Role(p) = signed[i].role
        /\ Iss(p) = << "s", "u", "p", "a", "b", "a", "s", "e" >>
        /\ Len(signed[i].reads) = 1
        /\ Iat(p) = int_time(signed[i].reads[1])
        /\ Exp(p) - Iat(p) = TenYears

\* A call that read the clock after it had advanced returned, the clock
\* having reached a later second since.
C7_Witness ==
  \E i \in 1..Len(signed) :
    /\ signed[i].reads[1] > 0
    /\ int_time(clock) > Seconds(signed[i])

\* C8: a returned token has exactly two '.', so three segments, and each
\* segment is made of characters of the base64url alphabet only: no '+', no
\* '/', no '='.
C8_TokenShape ==
  \A i \in 1..Len(signed) :
    LET t == signed[i].token
        seg == Segments(t, ".")
    IN  /\ Cardinality({k \in 1..Len(t) : t[k] = "."}) = 2
        /\ Len(seg) = 3
        /\ \A n \in 1..3 : \A k \in 1..Len(seg[n]) : seg[n][k] \in UrlAlphabet
        /\ \A k \in 1..Len(t) : t[k] \notin {"+", "/", "="}

\* A token whose payload is 1 mod 3 bytes long (two '=' stripped) returned.
C8_Witness ==
  \E i \in 1..Len(signed) : Len(Segments(signed[i].token, ".")[2]) % 4 = 2

\* C9: decoding what base64url_encode returns ('-' to '+', '_' to '/', '='
\* re-appended to a multiple of 4, standard base64 decoding) gives the input.
C9_RoundTrip == encoded # << >> => base64url_decode(encoded[1]) = data

\* A 32-byte input was encoded, to a text with a '-' or a '_' in it.
C9_Witness ==
  /\ encoded # << >>
  /\ Len(data) = SecretBytes
  /\ \E k \in 1..Len(encoded[1]) : encoded[1][k] \in {"-", "_"}

\* C10: the random source is drawn from once for each secret: the draws are
\* as many as the secrets assigned (two when both are, never more), each is
\* of 32 bytes, they consume disjoint bytes of the stream, the first yields
\* jwt_secret and the second secret_key_base.
C10_FreshDraws ==
  /\ Len(draws) = (IF jwt_secret # None THEN 1 ELSE 0)
                    + (IF secret_key_base # None THEN 1 ELSE 0)
  /\ \A i \in 1..Len(draws) : draws[i].n = SecretBytes
  /\ \A i, j \in 1..Len(draws) :
       i < j => draws[i].start + draws[i].n <= draws[j].start
  /\ jwt_secret # None => jwt_secret = SecretOfDraw(draws[1])
  /\ secret_key_base # None => secret_key_base = SecretOfDraw(draws[2])
  /\ pc \notin {"l40", "l41", "failed"} => Len(draws) = 2
  /\ pos = SecretBytes * Len(draws)

\* Both secrets are assigned, from two draws, and they differ.
C10_Witness ==
  /\ pc = "l44"
  /\ Len(draws) = 2
  /\ jwt_secret # secret_key_base

====
